---- MODULE Spec2Model ----
(***************************************************************************)
(* Weekly 4-hour assignment board: the week-key date arithmetic, the       *)
(* booking store in its two variants (localStorage snapshot, HTTP handler  *)
(* of bookings.js) and the Board component's load / submit / remove.       *)
(*                                                                         *)
(* A JavaScript Date is modelled by its time value counted in hours since  *)
(* 1970-01-01T00:00Z (every Date the program builds, other than "now", is  *)
(* a UTC midnight, and the only time arithmetic is in multiples of         *)
(* 86400000 ms).  A JavaScript string that the program builds or inspects  *)
(* is a sequence of one-character strings, so that formatting is computed  *)
(* and not assumed.                                                        *)
(***************************************************************************)
EXTENDS Integers, Sequences, FiniteSets, TLC

VARIABLES
    dIn,        \* date helpers: the Date handed to the week-key functions
    wkOut,      \* date helpers: what they returned for it, once computed
    ls,         \* localStorage[LS_KEY], parsed: the object id -> record
    cache,      \* bookings.js: the object weekKey -> (id -> record)
    apiLast,    \* the last call made through the API object, and its outcome
    cfg,        \* which Board runs (App.jsx or part_000) on which backend,
                \* and how many requests the browser has on their way at a time
    tz,         \* the browser's time zone: local time minus UTC, in hours
    now,        \* the clock: what new Date() gives
    disk,       \* localStorage: what the text under LS_KEY is (form) and
                \* whether setItem throws (full)
    baseDate,   \* Board state, per browser instance
    timerKey,   \* the weekKey in the closure that setInterval was given
    bookings,   \* Board state: the bookings shown
    error,      \* Board state: the message shown
    name,       \* Board state: the person field of the form
    net,        \* HTTP requests and responses on their way
    done,       \* per browser: the titles whose submit has completed in the
                \* week shown, with no navigation or cancel since
    last,       \* the user action that has just ended, and how
    assignments,       \* FourHourAssignmentBoard state (part_001), per
    selectedPersonId,  \* browser instance: week key -> person id -> entry,
    selectedDay,       \* and the person, day and start hour selected in
    selectedStart      \* the form (selectedDay: also dayIndex of the Board)

dateVars == <<dIn, wkOut>>
storeVars == <<ls, cache>>
apiVars == <<ls, cache, apiLast>>
envVars == <<cfg, tz, now, disk>>
boardVars == <<baseDate, timerKey, bookings, error, name, net, done, last>>
fourVars == <<assignments, selectedPersonId, selectedDay, selectedStart>>
vars == <<dIn, wkOut, ls, cache, apiLast, cfg, tz, now, disk,
          baseDate, timerKey, bookings, error, name, net, done, last,
          assignments, selectedPersonId, selectedDay, selectedStart>>

\* the JavaScript value undefined, and a property an object does not have
Undefined == "undefined"
NoProp == "absent"

(***************************************************************************)
(* Strings                                                                 *)
(***************************************************************************)
Digits == <<"0", "1", "2", "3", "4", "5", "6", "7", "8", "9">>
DigitSet == {Digits[i] : i \in 1..10}

RECURSIVE NatToStr(_)
NatToStr(n) == IF n < 10 THEN <<Digits[n + 1]>>
               ELSE NatToStr(n \div 10) \o <<Digits[(n % 10) + 1]>>

\* String(n) of an integer
String(n) == IF n < 0 THEN <<"-">> \o NatToStr(-n) ELSE NatToStr(n)

\* s.padStart(len, "0")
RECURSIVE padStart(_, _)
padStart(s, len) == IF Len(s) >= len THEN s ELSE padStart(<<"0">> \o s, len)

(***************************************************************************)
(* Date                                                                    *)
(***************************************************************************)
\* 86400000 ms, in the model's unit of one hour
DayLen == 24

\* days since 1970-01-01 of the proleptic Gregorian date y-m-d (m in 1..12)
DaysFromCivil(y, m, d) ==
    LET yy  == IF m <= 2 THEN y - 1 ELSE y
        era == yy \div 400
        yoe == yy - era * 400
        mp  == IF m > 2 THEN m - 3 ELSE m + 9
        doy == (153 * mp + 2) \div 5 + d - 1
        doe == yoe * 365 + yoe \div 4 - yoe \div 100 + doy
    IN  era * 146097 + doe - 719468

\* the proleptic Gregorian date of day number z
CivilFromDays(z) ==
    LET Civil(era, yoe, doy, mp) ==
            [y |-> (yoe + era * 400) + (IF mp < 10 THEN 0 ELSE 1),
             m |-> IF mp < 10 THEN mp + 3 ELSE mp - 9,
             d |-> doy - (153 * mp + 2) \div 5 + 1]
        FromDoy(era, yoe, doy) == Civil(era, yoe, doy, (5 * doy + 2) \div 153)
        FromYoe(era, doe, yoe) ==
            FromDoy(era, yoe, doe - (365 * yoe + yoe \div 4 - yoe \div 100))
        FromDoe(era, doe) ==
            FromYoe(era, doe,
                    (doe - doe \div 1460 + doe \div 36524 - doe \div 146096) \div 365)
        FromEra(zz, era) == FromDoe(era, zz - era * 146097)
    IN  FromEra(z + 719468, (z + 719468) \div 146097)

\* Date.UTC(year, monthIndex, day): day may lie outside the month
DateUTC(year, monthIndex, day) ==
    DayLen * (DaysFromCivil(year, monthIndex + 1, 1) + day - 1)

getUTCFullYear(t) == CivilFromDays(t \div DayLen).y
getUTCMonth(t)    == CivilFromDays(t \div DayLen).m - 1
getUTCDate(t)     == CivilFromDays(t \div DayLen).d
getUTCDay(t)      == ((t \div DayLen) + 4) % 7
\* date.setUTCDate(v): the time of day is kept
setUTCDate(t, v)  == DateUTC(getUTCFullYear(t), getUTCMonth(t), v) + (t % DayLen)

\* the local-time getters: the date on the browser's wall clock
getFullYear(t) == getUTCFullYear(t + tz)
getMonth(t)    == getUTCMonth(t + tz)
getDate(t)     == getUTCDate(t + tz)

\* a start of week that steps back one day too many
startOfISOWeek_OffByOne(d) ==
    LET x0  == DateUTC(getFullYear(d), getMonth(d), getDate(d))
        day == IF getUTCDay(x0) = 0 THEN 7 ELSE getUTCDay(x0)
        x1  == IF day # 1 THEN setUTCDate(x0, getUTCDate(x0) - day) ELSE x0
    IN  DayLen * (x1 \div DayLen)

startOfISOWeek(d) ==
    LET x0  == DateUTC(getFullYear(d), getMonth(d), getDate(d))
        day == IF getUTCDay(x0) = 0 THEN 7 ELSE getUTCDay(x0)
        x1  == IF day # 1 THEN setUTCDate(x0, getUTCDate(x0) - (day - 1)) ELSE x0
    IN  DayLen * (x1 \div DayLen)

addDays(date, days) == setUTCDate(date, getUTCDate(date) + days)

\* Math.round(n / 7) for an integer n: halves round up
RoundDiv7(n) == (2 * n + 7) \div 14

\* a week-key function that forgets to pad the week number
weekKeyFromDate_NoPad(d) ==
    LET t0     == DateUTC(getUTCFullYear(d), getUTCMonth(d), getUTCDate(d))
        target == setUTCDate(t0, getUTCDate(t0) + 3 - ((getUTCDay(t0) + 6) % 7))
        week1  == DateUTC(getUTCFullYear(target), 0, 4)
        weekNo == 1 + RoundDiv7((target - week1) \div DayLen - 3
                                + ((getUTCDay(week1) + 6) % 7))
    IN  String(getUTCFullYear(target)) \o <<"-", "W">> \o String(weekNo)

\* weekKeyFromDate of App.jsx and part_000
weekKeyFromDate(d) ==
    LET t0     == DateUTC(getUTCFullYear(d), getUTCMonth(d), getUTCDate(d))
        target == setUTCDate(t0, getUTCDate(t0) + 3 - ((getUTCDay(t0) + 6) % 7))
        week1  == DateUTC(getUTCFullYear(target), 0, 4)
        weekNo == 1 + RoundDiv7((target - week1) \div DayLen - 3
                                + ((getUTCDay(week1) + 6) % 7))
    IN  String(getUTCFullYear(target)) \o <<"-", "W">> \o padStart(String(weekNo), 2)

\* weekKey of part_001: the year printed is the year of d itself
weekKey(d) ==
    LET y      == getUTCFullYear(d)
        t0     == DateUTC(getUTCFullYear(d), getUTCMonth(d), getUTCDate(d))
        tmp    == setUTCDate(t0, getUTCDate(t0) + 3 - ((getUTCDay(t0) + 6) % 7))
        week1  == DateUTC(getUTCFullYear(tmp), 0, 4)
        weekNo == 1 + RoundDiv7((tmp - week1) \div DayLen - 3
                                + ((getUTCDay(week1) + 6) % 7))
    IN  String(y) \o <<"-", "W">> \o padStart(String(weekNo), 2)

\* date.toISOString(): YYYY-MM-DDTHH:00:00.000Z (whole hours)
toISOString(t) ==
    padStart(String(getUTCFullYear(t)), 4) \o <<"-">>
    \o padStart(String(getUTCMonth(t) + 1), 2) \o <<"-">>
    \o padStart(String(getUTCDate(t)), 2) \o <<"T">>
    \o padStart(String(t % DayLen), 2)
    \o <<":", "0", "0", ":", "0", "0", ".", "0", "0", "0", "Z">>

(***************************************************************************)
(* JavaScript objects and JSON                                             *)
(***************************************************************************)
\* an object with string keys: its entries [k, v] in insertion order
ObjHas(o, k) == \E i \in 1..Len(o) : o[i].k = k
ObjIndex(o, k) == CHOOSE i \in 1..Len(o) : o[i].k = k
ObjGet(o, k) == o[ObjIndex(o, k)].v
\* o[k] = v
ObjSet(o, k, v) == IF ObjHas(o, k) THEN [o EXCEPT ![ObjIndex(o, k)].v = v]
                   ELSE Append(o, [k |-> k, v |-> v])
\* delete o[k]
ObjDelete(o, k) == SelectSeq(o, LAMBDA e : e.k # k)
\* Object.values(o)
ObjValues(o) == [i \in 1..Len(o) |-> o[i].v]

\* a week key that is undefined (a property that is not there)
UndefinedKey == <<Undefined>>
\* !v for a string or undefined
Falsy(v) == v = UndefinedKey \/ v = <<>>

\* b.id: reading a property that is absent gives undefined
IdOf(b) == IF b.id = NoProp THEN Undefined ELSE b.id

\* { id, ...body }: an own property id of body, even one holding undefined,
\* overrides the id written before the spread
SpreadId(id, body) == [body EXCEPT !.id = IF body.id = NoProp THEN id ELSE body.id]

\* JSON.parse(JSON.stringify(rec)): a property holding undefined is dropped
JsonRecord(rec) == [rec EXCEPT !.id = IF rec.id = Undefined THEN NoProp ELSE rec.id]
JsonObject(o) == [i \in 1..Len(o) |-> [k |-> o[i].k, v |-> JsonRecord(o[i].v)]]

(***************************************************************************)
(* Storage layer: localStorage                                             *)
(***************************************************************************)
\* the values `b_${Date.now()}_${Math.random().toString(36).slice(2, 8)}` can
\* take: any of them at any call, whatever the store holds
IdNames == <<"b_1", "b_2", "b_3", "b_4">>
NumIds == 2
GenIds == {IdNames[i] : i \in 1..NumIds}

\* the text under LS_KEY is the JSON of the object ls, and setItem works
DiskOk == [form |-> "object", full |-> FALSE]
\* what the text under LS_KEY can be: the JSON of an object, nothing
\* (getItem gives null, so "{}" is parsed), text JSON.parse rejects, or the
\* JSON text null
DiskForms == {"object", "missing", "unparsable", "null"}
\* JSON.parse(localStorage.getItem(LS_KEY) || "{}") gives null
LoadsNull == disk.form = "null"
\* Object.values(null), null[id] = ..., delete null[id]
NullTypeError == "Cannot convert undefined or null to object"

\* try { return JSON.parse(...) } catch { return {} }; when LoadsNull the
\* value returned is null
loadAllLS(stored) == IF disk.form = "object" THEN stored ELSE <<>>
\* try { localStorage.setItem(LS_KEY, JSON.stringify(obj)) } catch {}: what
\* the storage holds afterwards
saveAllLS(stored, obj) == IF disk.full THEN stored ELSE JsonObject(obj)

\* each returns the new content of the storage and what the caller gets
apiGetWeekLS(stored, wk) ==
    IF LoadsNull THEN [stored |-> stored, err |-> NullTypeError, data |-> <<>>]
    ELSE [stored |-> stored, err |-> "",
          data |-> SelectSeq(ObjValues(loadAllLS(stored)), LAMBDA b : b.weekKey = wk)]

apiCreateLS(stored, body, id) ==
    IF LoadsNull THEN [stored |-> stored, err |-> NullTypeError, data |-> <<>>]
    ELSE [stored |-> saveAllLS(stored, ObjSet(loadAllLS(stored), id, SpreadId(id, body))),
          err |-> "",
          data |-> <<SpreadId(id, body)>>]

apiDeleteLS(stored, id) ==
    IF LoadsNull THEN [stored |-> stored, err |-> NullTypeError, data |-> <<>>]
    ELSE [stored |-> saveAllLS(stored, ObjDelete(loadAllLS(stored), id)),
          err |-> "", data |-> <<>>]

(***************************************************************************)
(* bookings.js                                                             *)
(***************************************************************************)
MissingWeekKey == "{\"error\":\"Missing weekKey\"}"
NoQuery == [weekKey |-> UndefinedKey, id |-> Undefined]

\* handler(req, res) on cache c, with id the identifier a POST generates:
\* the new cache and the response
handler(c, req, id) ==
    LET wk == IF ~Falsy(req.query.weekKey) THEN req.query.weekKey
              ELSE IF req.body = <<>> THEN UndefinedKey ELSE req.body[1].weekKey
    IN  IF Falsy(wk)
        THEN [cache |-> c, status |-> 400, data |-> <<>>, text |-> MissingWeekKey,
              allow |-> {}]
        ELSE
        LET c1 == IF ~ObjHas(c, wk) THEN ObjSet(c, wk, <<>>) ELSE c
            bucket == ObjGet(c1, wk)
        IN  CASE req.method = "GET" ->
                   [cache |-> c1, status |-> 200, data |-> ObjValues(bucket),
                    text |-> "", allow |-> {}]
              [] req.method = "POST" ->
                   LET record == SpreadId(id, req.body[1])
                   IN  [cache |-> ObjSet(c1, wk, ObjSet(bucket, id, record)),
                        status |-> 201, data |-> <<JsonRecord(record)>>,
                        text |-> "", allow |-> {}]
              [] req.method = "DELETE" ->
                   [cache |-> IF req.query.id # Undefined /\ ObjHas(bucket, req.query.id)
                              THEN ObjSet(c1, wk, ObjDelete(bucket, req.query.id))
                              ELSE c1,
                    status |-> 200, data |-> <<>>, text |-> "{\"ok\":true}",
                    allow |-> {}]
              [] OTHER ->
                   [cache |-> c1, status |-> 405, data |-> <<>>,
                    text |-> "Method Not Allowed", allow |-> {"GET", "POST", "DELETE"}]

(***************************************************************************)
(* Storage layer: HTTP.  Every character of a week key or an id is left    *)
(* as it is by encodeURIComponent, and the server reads back the string    *)
(* that was sent.                                                          *)
(***************************************************************************)
\* the requests the three functions send
reqGetWeekHTTP(wk) ==
    [method |-> "GET", query |-> [weekKey |-> wk, id |-> Undefined], body |-> <<>>]
reqCreateHTTP(body) ==
    [method |-> "POST", query |-> NoQuery, body |-> <<JsonRecord(body)>>]
\* the id goes into the path /bookings/<id>: the query string is empty
reqDeleteHTTP(id) ==
    [method |-> "DELETE", query |-> NoQuery, body |-> <<>>]

\* r.ok
Ok(resp) == resp.status \in 200..299

\* what the caller of an apiXxxHTTP function gets from response resp
\* (if (!r.ok) throw new Error(await r.text()); return r.json())
fromResponse(resp) ==
    IF Ok(resp) THEN [err |-> "", data |-> resp.data]
    ELSE [err |-> resp.text, data |-> <<>>]

\* the serving process is alive and the request and the response arrive
apiGetWeekHTTP(c, wk) ==
    LET resp == handler(c, reqGetWeekHTTP(wk), Undefined)
    IN  [stored |-> resp.cache] @@ fromResponse(resp)
apiCreateHTTP(c, body, id) ==
    LET resp == handler(c, reqCreateHTTP(body), id)
    IN  [stored |-> resp.cache] @@ fromResponse(resp)
apiDeleteHTTP(c, id) ==
    LET resp == handler(c, reqDeleteHTTP(id), Undefined)
    IN  [stored |-> resp.cache, err |-> fromResponse(resp).err, data |-> <<>>]

(***************************************************************************)
(* The Board component, one per browser instance                           *)
(***************************************************************************)
BrowserNames == <<"b1">>
Browsers == {BrowserNames[i] : i \in 1..Len(BrowserNames)}

NoRec == [id |-> NoProp, title |-> <<>>, dayISO |-> <<>>, startHour |-> 0,
          durationHours |-> 0, weekKey |-> <<>>]
NoLast == [op |-> "none", b |-> "", title |-> <<>>, again |-> FALSE, outcome |-> "",
           rec |-> NoRec, before |-> <<>>]

\* no Board is running
BoardIdle ==
    /\ cfg = [app |-> "App", backend |-> "LS", conns |-> 1]
    /\ tz = 0
    /\ now = 0
    /\ baseDate = [b \in Browsers |-> 0]
    /\ timerKey = [b \in Browsers |-> <<>>]
    /\ bookings = [b \in Browsers |-> <<>>]
    /\ error = [b \in Browsers |-> ""]
    /\ name = [b \in Browsers |-> <<>>]
    /\ net = <<>>
    /\ done = [b \in Browsers |-> {}]
    /\ last = NoLast

\* no FourHourAssignmentBoard is running
FourIdle ==
    /\ assignments = [b \in Browsers |-> <<>>]
    /\ selectedPersonId = [b \in Browsers |-> ""]
    /\ selectedDay = [b \in Browsers |-> 0]
    /\ selectedStart = [b \in Browsers |-> 0]

(***************************************************************************)
(* Specification of the API object: a caller makes getWeek, create and     *)
(* del calls one after the other (it awaits each), and every call is made  *)
(* on both variants, which generate the same id.                           *)
(***************************************************************************)
ApiWeekStarts == {DateUTC(2024, 11, 30), DateUTC(2025, 0, 6)}
ApiWeeks == {weekKeyFromDate(d) : d \in ApiWeekStarts}
ApiTitles == {<<"A", "l">>}
\* an id a caller put in the body itself
OwnId == "mine"
\* the drafts: as submit of part_000 builds them (no id), as submit of
\* App.jsx builds them (id: undefined), and with an id of the caller's
ApiDrafts == {[id |-> i, title |-> t, dayISO |-> toISOString(d), startHour |-> 8,
               durationHours |-> 4, weekKey |-> weekKeyFromDate(d)] :
              i \in {NoProp, Undefined, OwnId}, t \in ApiTitles, d \in ApiWeekStarts}
\* the store holds at most this many records
MaxStore == 2

NoOutcome == [stored |-> <<>>, err |-> "", data |-> <<>>]
ApiIdle ==
    /\ ls = <<>>
    /\ disk = DiskOk
    /\ cache = <<>>
    /\ apiLast = [op |-> "none", wk |-> <<>>, body |-> <<>>, id |-> Undefined,
                  had |-> FALSE, local |-> NoOutcome, http |-> NoOutcome]

\* every record the server holds, bucket after bucket
CacheRecords(c) ==
    LET RECURSIVE Flat(_)
        Flat(i) == IF i > Len(c) THEN <<>> ELSE ObjValues(c[i].v) \o Flat(i + 1)
    IN  Flat(1)
\* the ids under which the server holds a record
CacheHas(c, id) == \E i \in 1..Len(c) : ObjHas(c[i].v, id)

\* had: whether a record was stored under id, in either store, before the call
Call(op, wk, body, id, local, http) ==
    /\ apiLast' = [op |-> op, wk |-> wk, body |-> body, id |-> id,
                   had |-> ObjHas(ls, id) \/ CacheHas(cache, id),
                   local |-> [local EXCEPT !.stored = <<>>],
                   http |-> [http EXCEPT !.stored = <<>>]]
    /\ ls' = local.stored
    /\ cache' = http.stored

ApiGetWeek ==
    /\ \E wk \in ApiWeeks :
          Call("getWeek", wk, <<>>, Undefined, apiGetWeekLS(ls, wk), apiGetWeekHTTP(cache, wk))
    /\ UNCHANGED <<dateVars, fourVars, envVars, boardVars>>

ApiCreate ==
    /\ \E body \in ApiDrafts, id \in GenIds :
          /\ Len(ls) < MaxStore \/ ObjHas(ls, id)
          /\ Len(CacheRecords(cache)) < MaxStore \/ CacheHas(cache, id)
          /\ Call("create", body.weekKey, <<body>>, id,
                  apiCreateLS(ls, body, id), apiCreateHTTP(cache, body, id))
    /\ UNCHANGED <<dateVars, fourVars, envVars, boardVars>>

\* the caller deletes by the id of a record it was given, by a generated id
\* that may be in the store or not, or by undefined
ApiDel ==
    /\ \E id \in GenIds \cup {OwnId, Undefined} :
          Call("del", <<>>, <<>>, id, apiDeleteLS(ls, id), apiDeleteHTTP(cache, id))
    /\ UNCHANGED <<dateVars, fourVars, envVars, boardVars>>

ApiInit ==
    /\ dIn = 0
    /\ wkOut = [done |-> FALSE, of |-> 0, app |-> <<>>, p1 |-> <<>>]
    /\ FourIdle
    /\ ApiIdle
    /\ BoardIdle

ApiNext == ApiGetWeek \/ ApiCreate \/ ApiDel

SpecAPI == ApiInit /\ [][ApiNext]_vars

(***************************************************************************)
(* Specification of the API object on a localStorage in any condition:     *)
(* the text under LS_KEY may be missing, unparsable or the JSON null, and  *)
(* setItem may throw (quota); the calls are made as in SpecAPI.            *)
(***************************************************************************)
\* the condition of localStorage after a call that, if it got that far,
\* wrote the snapshot
Written == IF LoadsNull \/ disk.full THEN disk ELSE [disk EXCEPT !.form = "object"]

StGetWeek ==
    /\ \E wk \in ApiWeeks :
          Call("getWeek", wk, <<>>, Undefined, apiGetWeekLS(ls, wk), apiGetWeekHTTP(cache, wk))
    /\ UNCHANGED <<dateVars, fourVars, envVars, boardVars>>

\* the drafts are those with no id of their own
StCreate ==
    /\ \E body \in ApiDrafts, id \in GenIds :
          /\ body.id = NoProp
          /\ Len(ls) < MaxStore \/ ObjHas(ls, id)
          /\ Len(CacheRecords(cache)) < MaxStore \/ CacheHas(cache, id)
          /\ Call("create", body.weekKey, <<body>>, id,
                  apiCreateLS(ls, body, id), apiCreateHTTP(cache, body, id))
    /\ disk' = Written
    /\ UNCHANGED <<dateVars, fourVars, cfg, tz, now, boardVars>>

StDel ==
    /\ \E id \in GenIds :
          Call("del", <<>>, <<>>, id, apiDeleteLS(ls, id), apiDeleteHTTP(cache, id))
    /\ disk' = Written
    /\ UNCHANGED <<dateVars, fourVars, cfg, tz, now, boardVars>>

\* the storage fills up, or room is made
StQuota ==
    /\ disk' = [disk EXCEPT !.full = ~disk.full]
    /\ apiLast' = [op |-> "none", wk |-> <<>>, body |-> <<>>, id |-> Undefined,
                   had |-> FALSE, local |-> NoOutcome, http |-> NoOutcome]
    /\ UNCHANGED <<dateVars, fourVars, storeVars, cfg, tz, now, boardVars>>

StInit ==
    /\ dIn = 0
    /\ wkOut = [done |-> FALSE, of |-> 0, app |-> <<>>, p1 |-> <<>>]
    /\ FourIdle
    /\ ls = <<>>
    /\ disk \in [form : DiskForms, full : BOOLEAN]
    /\ cache = <<>>
    /\ apiLast = [op |-> "none", wk |-> <<>>, body |-> <<>>, id |-> Undefined,
                  had |-> FALSE, local |-> NoOutcome, http |-> NoOutcome]
    /\ BoardIdle

StNext == StGetWeek \/ StCreate \/ StDel \/ StQuota

SpecStorage == StInit /\ [][StNext]_vars

(***************************************************************************)
(* Specification of the server handler alone: any client sends it GET,     *)
(* POST, DELETE and PUT requests, with the weekKey in the query string, in *)
(* the body, in both or in neither.                                        *)
(***************************************************************************)
HQueries == [weekKey : ApiWeeks \cup {UndefinedKey}, id : {IdNames[1], Undefined}]
\* no body, or a JSON body: a booking without an id of its own
HBodies == {<<>>} \cup {<<d>> : d \in {x \in ApiDrafts : x.id = NoProp}}
NoAnswer == [op |-> "none", req |-> [method |-> "", query |-> NoQuery, body |-> <<>>],
             id |-> Undefined, status |-> 0, data |-> <<>>, text |-> "", allow |-> {}]

\* the handler runs on request req; a POST generates id
Serve(req, id) ==
    /\ cache' = handler(cache, req, id).cache
    /\ apiLast' = [op |-> req.method, req |-> req, id |-> id,
                   status |-> handler(cache, req, id).status,
                   data |-> handler(cache, req, id).data,
                   text |-> handler(cache, req, id).text,
                   allow |-> handler(cache, req, id).allow]

HGet ==
    /\ \E q \in HQueries, body \in HBodies :
          Serve([method |-> "GET", query |-> q, body |-> body], Undefined)
    /\ UNCHANGED <<dateVars, fourVars, ls, envVars, boardVars>>

HPost ==
    /\ \E q \in HQueries, body \in HBodies \ {<<>>}, id \in GenIds :
          /\ Len(CacheRecords(cache)) < MaxStore \/ CacheHas(cache, id)
          /\ Serve([method |-> "POST", query |-> q, body |-> body], id)
    /\ UNCHANGED <<dateVars, fourVars, ls, envVars, boardVars>>

HDelete ==
    /\ \E q \in HQueries, body \in HBodies :
          Serve([method |-> "DELETE", query |-> q, body |-> body], Undefined)
    /\ UNCHANGED <<dateVars, fourVars, ls, envVars, boardVars>>

HPut ==
    /\ \E q \in HQueries, body \in HBodies :
          Serve([method |-> "PUT", query |-> q, body |-> body], Undefined)
    /\ UNCHANGED <<dateVars, fourVars, ls, envVars, boardVars>>

HInit ==
    /\ dIn = 0
    /\ wkOut = [done |-> FALSE, of |-> 0, app |-> <<>>, p1 |-> <<>>]
    /\ FourIdle
    /\ ls = <<>>
    /\ disk = DiskOk
    /\ cache = <<>>
    /\ apiLast = NoAnswer
    /\ BoardIdle

HNext == HGet \/ HPost \/ HDelete \/ HPut

SpecHandler == HInit /\ [][HNext]_vars

(***************************************************************************)
(* Board: load, submit, remove, the week buttons and the refresh timer.    *)
(* With the localStorage backend every await resumes in a microtask, so a  *)
(* handler runs to its end before the next event; with the HTTP backend    *)
(* it stops at each fetch until the response is delivered.                 *)
(***************************************************************************)
Apps == {"App", "part_000"}
Backends == {"LS", "HTTP"}
\* CONFIG.onePerWeek: true in App.jsx; part_000 has no such check
onePerWeek == cfg.app = "App"

EnterName == "Please enter your name"
PickPerson == "Pick a person"
\* (the source writes 4-hour with a non-breaking hyphen, U+2011)
AlreadyHave == "You already have a 4-hour assignment this week."
Alex == <<"A", "l", "e", "x">>

\* what the user may type into the person field
NameInputs == {<<" ">>, <<"A", "l", " ">>}
\* the day and the start hour selected in the form when submit is clicked
DayChoices == {0}
StartChoices == {8}
\* the clock reading: Wednesday 2025-01-01 12:00Z
Nows == {DateUTC(2025, 0, 1) + 12}
TzOffsets == {0}
\* Prev and Next are followed at most this many weeks away from the week of now
MaxNav == 1
\* at most this many requests and responses are on their way (cfg.conns);
\* where the order of responses matters, one more
MaxInflight == 1

\* s.trim()
RECURSIVE trim(_)
trim(s) == IF Len(s) > 0 /\ s[1] = " " THEN trim(Tail(s))
           ELSE IF Len(s) > 0 /\ s[Len(s)] = " " THEN trim(SubSeq(s, 1, Len(s) - 1))
           ELSE s

\* the memo weekKey of browser b's current render
wkKeyOf(b) == weekKeyFromDate(baseDate[b])
\* the memo days of browser b's current render, days[0] .. days[6]
days(b) == [i \in 0..6 |-> addDays(baseDate[b], i)]

RemoveAt(q, i) == SubSeq(q, 1, i - 1) \o SubSeq(q, i + 1, Len(q))
Msg(b, op, wk, body, id, org, title, rec) ==
    [b |-> b, op |-> op, stage |-> "req", wk |-> wk, body |-> body, id |-> id,
     org |-> org, title |-> title, rec |-> rec, err |-> "", data |-> <<>>]
\* the records the backend in use holds
StoreRecords == IF cfg.backend = "LS" THEN ObjValues(ls) ELSE CacheRecords(cache)
\* creates on their way to the server
PendingCreates == Len(SelectSeq(net, LAMBDA m : m.op = "create" /\ m.stage = "req"))

\* load() with wk in its closure, run by browser b; q is what is on its way
\* once the caller's own response is taken off.  org and title say on whose
\* behalf the load runs.  Sets error, bookings and net.
load(b, wk, q, org, title, rec) ==
    IF cfg.backend = "LS"
    THEN /\ bookings' = [bookings EXCEPT ![b] = apiGetWeekLS(ls', wk).data]
         /\ error' = [error EXCEPT ![b] = ""]
         /\ net' = q
    ELSE /\ bookings' = bookings
         /\ error' = [error EXCEPT ![b] = ""]
         /\ net' = Append(q, Msg(b, "getWeek", wk, <<>>, Undefined, org, title, rec))

CanSend == cfg.backend = "LS" \/ Len(net) < cfg.conns

\* setBaseDate(d) and the effect that follows the render: load() when the
\* week key has changed
SetBaseDate(b, d) ==
    /\ CanSend
    /\ (d - startOfISOWeek(now)) \in (0 - MaxNav * 7 * DayLen)..(MaxNav * 7 * DayLen)
    /\ baseDate' = [baseDate EXCEPT ![b] = d]
    /\ IF weekKeyFromDate(d) # wkKeyOf(b)
       THEN /\ ls' = ls
            /\ load(b, weekKeyFromDate(d),
                    [i \in 1..Len(net) |-> IF net[i].b = b THEN [net[i] EXCEPT !.org = "load"]
                                           ELSE net[i]],
                    "load", <<>>, NoRec)
            /\ done' = [done EXCEPT ![b] = {}]
       ELSE UNCHANGED <<ls, bookings, error, net, done>>
    /\ last' = NoLast
    /\ UNCHANGED <<dateVars, fourVars, apiLast, envVars, cache, timerKey, name>>

Prev(b) == SetBaseDate(b, baseDate[b] - 7 * DayLen)
NextWeek(b) == SetBaseDate(b, baseDate[b] + 7 * DayLen)
Today(b) == SetBaseDate(b, startOfISOWeek(now))

\* setInterval(load, CONFIG.refreshMs) fires: the load of the first render
TimerTick(b) ==
    /\ CanSend
    /\ ls' = ls
    /\ load(b, timerKey[b], net, "load", <<>>, NoRec)
    /\ last' = NoLast
    /\ UNCHANGED <<dateVars, fourVars, apiLast, envVars, cache, baseDate, timerKey, name, done>>

\* onChange of the person field
SetName(b) ==
    /\ \E n \in NameInputs : n # name[b] /\ name' = [name EXCEPT ![b] = n]
    /\ last' = NoLast
    /\ UNCHANGED <<dateVars, fourVars, apiVars, envVars, baseDate, timerKey, bookings, error,
                   net, done>>

\* the body submit passes to API.create
Draft(b, nm, dayIndex, startHour) ==
    LET d   == days(b)[dayIndex]
        iso == toISOString(DateUTC(getFullYear(d), getMonth(d), getDate(d)))
    IN  [id |-> IF cfg.app = "App" THEN Undefined ELSE NoProp,
         title |-> nm, dayISO |-> iso, startHour |-> startHour,
         durationHours |-> 4, weekKey |-> wkKeyOf(b)]

\* a check of the view that never finds the title
Has_Never(b, nm) == FALSE

\* const has = bookings.some(b => b.title === nm)
Has(b, nm) == \E i \in 1..Len(bookings[b]) : bookings[b][i].title = nm

Ended(op, b, nm, outcome, rec, before) ==
    [op |-> op, b |-> b, title |-> nm, again |-> nm \in done[b], outcome |-> outcome,
     rec |-> rec, before |-> before]

\* the try block of submit: API.create(body), setName(''), load()
CreateAndReload(b, nm, body) ==
    IF cfg.backend = "LS"
    THEN \E id \in GenIds :
           /\ Len(ls) < MaxStore \/ ObjHas(ls, id)
           /\ ls' = apiCreateLS(ls, body, id).stored
           /\ name' = [name EXCEPT ![b] =
                          IF cfg.app = "App" THEN <<>> ELSE name[b]]
           /\ load(b, wkKeyOf(b), net, "submit", nm, NoRec)
           /\ done' = [done EXCEPT ![b] = done[b] \cup {nm}]
           /\ last' = Ended("submit", b, nm, "created", body, <<>>)
    ELSE /\ Len(net) < cfg.conns
         /\ Len(CacheRecords(cache)) + PendingCreates < MaxStore
         /\ net' = Append(net, Msg(b, "create", wkKeyOf(b), <<body>>,
                                   Undefined, "submit", nm, NoRec))
         /\ last' = Ended("submit", b, nm, "sent", body, <<>>)
         /\ UNCHANGED <<ls, bookings, error, name, done>>

\* click on "Assign 4 hours"
Submit(b) ==
    LET nm == trim(name[b])
    IN  /\ UNCHANGED <<dateVars, fourVars, apiLast, envVars, baseDate, timerKey, cache>>
        /\ IF nm = <<>>
           THEN /\ error' = [error EXCEPT ![b] =
                                IF cfg.app = "App" THEN EnterName ELSE PickPerson]
                /\ last' = Ended("submit", b, nm, "rejected", NoRec, <<>>)
                /\ UNCHANGED <<ls, bookings, name, net, done>>
           ELSE IF onePerWeek /\ Has(b, nm)
           THEN /\ error' = [error EXCEPT ![b] = AlreadyHave]
                /\ last' = Ended("submit", b, nm, "rejected", NoRec, <<>>)
                /\ UNCHANGED <<ls, bookings, name, net, done>>
           ELSE \E dayIndex \in DayChoices, startHour \in StartChoices :
                CreateAndReload(b, nm, Draft(b, nm, dayIndex, startHour))

\* click on "cancel" of the i-th booking shown: remove(b.id)
Remove(b) ==
    \E i \in 1..Len(bookings[b]) :
        LET rec == bookings[b][i]
            id  == IdOf(rec)
        IN  /\ UNCHANGED <<dateVars, fourVars, apiLast, envVars, baseDate, timerKey, cache, name>>
            /\ done' = [x \in Browsers |-> {}]
            /\ IF cfg.backend = "LS"
               THEN /\ ls' = apiDeleteLS(ls, id).stored
                    /\ load(b, wkKeyOf(b), net, "remove", <<>>, rec)
                    /\ last' = Ended("remove", b, <<>>, "reloaded", rec,
                                     apiGetWeekLS(ls, rec.weekKey).data)
               ELSE /\ Len(net) < cfg.conns
                    /\ net' = Append(net, Msg(b, "del", wkKeyOf(b), <<>>, id, "remove",
                                              <<>>, rec))
                    /\ last' = NoLast
                    /\ UNCHANGED <<ls, bookings, error>>

\* the serving process runs the handler on a request that has arrived
ServerHandle ==
    \E i \in 1..Len(net) :
        LET m == net[i]
            Answer(r) ==
                /\ cache' = r.stored
                /\ net' = [net EXCEPT ![i] = [m EXCEPT !.stage = "resp", !.err = r.err,
                                                       !.data = r.data]]
        IN  /\ m.stage = "req"
            /\ cfg.backend = "HTTP"
            /\ CASE m.op = "getWeek" -> Answer(apiGetWeekHTTP(cache, m.wk))
                 [] m.op = "create" ->
                      \E id \in GenIds : Answer(apiCreateHTTP(cache, m.body[1], id))
                 [] m.op = "del" -> Answer(apiDeleteHTTP(cache, m.id))
            /\ last' = NoLast
            /\ UNCHANGED <<dateVars, fourVars, apiLast, envVars, ls, baseDate, timerKey, bookings,
                           error, name, done>>

\* fetch rejects: the request, or the response to it, is lost on the way
FailedToFetch == "Failed to fetch"
NetFail ==
    \E i \in 1..Len(net) :
        /\ net[i].err = ""
        /\ net' = [net EXCEPT ![i] = [net[i] EXCEPT !.stage = "resp", !.err = FailedToFetch,
                                                      !.data = <<>>]]
        /\ last' = NoLast
        /\ UNCHANGED <<dateVars, fourVars, apiVars, envVars, baseDate, timerKey, bookings, error,
                       name, done>>

\* a catch block that sends the failed request once more
Caught_Retries(b, m, q) ==
    /\ error' = [error EXCEPT ![b] = m.err]
    /\ net' = Append(q, [m EXCEPT !.stage = "req", !.err = ""])
    /\ last' = NoLast
    /\ UNCHANGED <<bookings, name, done>>

\* catch(e){ setError(String(e.message||e)); } of load, submit and remove,
\* for the failure that message m carries; q is what stays on its way
Caught(b, m, q) ==
    /\ error' = [error EXCEPT ![b] = m.err]
    /\ net' = q
    /\ last' = IF m.org = "load" THEN NoLast
               ELSE Ended(m.org, b, m.title, "error", m.rec, <<>>)
    /\ UNCHANGED <<bookings, name, done>>

\* a response arrives and the function that awaited it goes on
Deliver ==
    \E i \in 1..Len(net) :
        LET m == net[i]
            b == m.b
            q == RemoveAt(net, i)
        IN  /\ m.stage = "resp"
            /\ UNCHANGED <<dateVars, fourVars, apiLast, envVars, ls, cache, baseDate, timerKey>>
            /\ IF m.err # ""
               THEN Caught(b, m, q)
               ELSE CASE m.op = "getWeek" ->
                         /\ bookings' = [bookings EXCEPT ![b] = m.data]
                         /\ net' = q
                         /\ done' = IF m.org = "submit"
                                    THEN [done EXCEPT ![b] = done[b] \cup {m.title}]
                                    ELSE done
                         /\ last' = IF m.org = "remove"
                                    THEN Ended("remove", b, <<>>, "reloaded", m.rec, <<>>)
                                    ELSE NoLast
                         /\ UNCHANGED <<error, name>>
                      [] m.op = "create" ->
                         /\ name' = [name EXCEPT ![b] =
                                        IF cfg.app = "App" THEN <<>> ELSE name[b]]
                         /\ load(b, m.wk, q, m.org, m.title, m.rec)
                         /\ last' = NoLast
                         /\ UNCHANGED done
                      [] m.op = "del" ->
                         /\ load(b, m.wk, q, m.org, m.title, m.rec)
                         /\ last' = NoLast
                         /\ UNCHANGED <<name, done>>

\* the Boards are mounted: first render, and the effect that runs load()
Mount ==
    /\ dIn = 0
    /\ wkOut = [done |-> FALSE, of |-> 0, app |-> <<>>, p1 |-> <<>>]
    /\ FourIdle
    /\ apiLast = [op |-> "none", wk |-> <<>>, body |-> <<>>, id |-> Undefined,
                  had |-> FALSE, local |-> NoOutcome, http |-> NoOutcome]
    /\ tz \in TzOffsets
    /\ now \in Nows
    /\ disk = DiskOk
    /\ baseDate = [b \in Browsers |-> startOfISOWeek(now)]
    /\ timerKey = [b \in Browsers |-> weekKeyFromDate(startOfISOWeek(now))]
    /\ bookings = [b \in Browsers |-> <<>>]
    /\ error = [b \in Browsers |-> ""]
    /\ name = [b \in Browsers |-> IF cfg.app = "App" THEN <<>> ELSE Alex]
    /\ net = IF cfg.backend = "LS" THEN <<>>
             ELSE [i \in 1..Len(BrowserNames) |->
                     Msg(BrowserNames[i], "getWeek", weekKeyFromDate(startOfISOWeek(now)),
                         <<>>, Undefined, "load", <<>>, NoRec)]
    /\ done = [b \in Browsers |-> {}]
    /\ last = NoLast

BoardInit ==
    /\ cfg \in [app : Apps, backend : Backends, conns : {MaxInflight}]
    /\ ls = <<>>
    /\ cache = <<>>
    /\ Mount

BoardNext ==
    \/ \E b \in Browsers : Prev(b)
    \/ \E b \in Browsers : NextWeek(b)
    \/ \E b \in Browsers : Today(b)
    \/ \E b \in Browsers : TimerTick(b)
    \/ \E b \in Browsers : SetName(b)
    \/ \E b \in Browsers : Submit(b)
    \/ \E b \in Browsers : Remove(b)
    \/ ServerHandle
    \/ Deliver

SpecBoard == BoardInit /\ [][BoardNext]_vars

(***************************************************************************)
(* Specification of the Board on an unreliable network: the HTTP backend,  *)
(* the selected week left alone, and any request or response may be lost.  *)
(***************************************************************************)
FailInit == BoardInit /\ cfg.backend = "HTTP"

FailNext ==
    \/ \E b \in Browsers : TimerTick(b)
    \/ \E b \in Browsers : SetName(b)
    \/ \E b \in Browsers : Submit(b)
    \/ \E b \in Browsers : Remove(b)
    \/ ServerHandle
    \/ NetFail
    \/ Deliver

SpecFail == FailInit /\ [][FailNext]_vars

(***************************************************************************)
(* Specification of the Board with responses that overtake each other: the *)
(* HTTP backend, one more request on its way at a time, a server that      *)
(* holds a booking for the week of now or none, and a user who navigates   *)
(* while responses are outstanding.                                        *)
(***************************************************************************)
\* a booking made earlier for the week of now
Earlier ==
    [id |-> NoProp, title |-> Alex, dayISO |-> toISOString(startOfISOWeek(now)),
     startHour |-> 8, durationHours |-> 4,
     weekKey |-> weekKeyFromDate(startOfISOWeek(now))]

StaleInit ==
    /\ cfg \in [app : Apps, backend : {"HTTP"}, conns : {MaxInflight + 1}]
    /\ ls = <<>>
    /\ Mount
    /\ cache \in {<<>>, apiCreateHTTP(<<>>, Earlier, IdNames[1]).stored}

StaleNext ==
    \/ \E b \in Browsers : Prev(b)
    \/ \E b \in Browsers : NextWeek(b)
    \/ \E b \in Browsers : Today(b)
    \/ ServerHandle
    \/ Deliver

SpecStale == StaleInit /\ [][StaleNext]_vars

(***************************************************************************)
(* Specification of the week buttons alone: a Board on localStorage, in a  *)
(* browser of some time zone, mounted at some clock reading; the user      *)
(* clicks Prev, Next and Today while the clock moves on.                   *)
(***************************************************************************)
\* clock readings: early and late in each of NavDays days from 2024-12-26
NavDays == 9
NavNows == {DayLen * (DaysFromCivil(2024, 12, 26) + k) + h : k \in 0..(NavDays - 1),
                                                          h \in {1, 22}}
NavTz == {0 - 8, 0, 9}

ClockTick ==
    /\ \E n \in NavNows : n > now /\ n - now <= DayLen /\ now' = n
    /\ UNCHANGED <<dateVars, fourVars, apiVars, cfg, tz, disk, boardVars>>

NavInit ==
    /\ dIn = 0
    /\ wkOut = [done |-> FALSE, of |-> 0, app |-> <<>>, p1 |-> <<>>]
    /\ FourIdle
    /\ ApiIdle
    /\ cfg \in [app : Apps, backend : {"LS"}, conns : {MaxInflight}]
    /\ tz \in NavTz
    /\ now \in NavNows
    /\ baseDate = [b \in Browsers |-> startOfISOWeek(now)]
    /\ timerKey = [b \in Browsers |-> weekKeyFromDate(startOfISOWeek(now))]
    /\ bookings = [b \in Browsers |-> <<>>]
    /\ error = [b \in Browsers |-> ""]
    /\ name = [b \in Browsers |-> IF cfg.app = "App" THEN <<>> ELSE Alex]
    /\ net = <<>>
    /\ done = [b \in Browsers |-> {}]
    /\ last = NoLast

NavNext ==
    \/ \E b \in Browsers : Prev(b)
    \/ \E b \in Browsers : NextWeek(b)
    \/ \E b \in Browsers : Today(b)
    \/ ClockTick

SpecNav == NavInit /\ [][NavNext]_vars

(***************************************************************************)
(* Specification of the draft submit builds: a Board as in SpecNav, whose  *)
(* user picks any day and any start hour the form offers, in any week      *)
(* reached with Prev, Next and Today.                                      *)
(***************************************************************************)
\* CONFIG.hoursStart and CONFIG.hoursEnd
hoursStart == 7
hoursEnd == 20
\* HOURS: Array.from({ length: hoursEnd - hoursStart + 1 }, (_, i) => hoursStart + i)
HOURS == {hoursStart + i : i \in 0..(hoursEnd - hoursStart)}

\* submit, from the click to the draft it hands to API.create, for the day
\* and the start hour selected in the form
DraftCompute ==
    /\ \E b \in Browsers, dayIndex \in 0..6, startHour \in HOURS :
          /\ trim(name[b]) # <<>>
          /\ ~(onePerWeek /\ Has(b, trim(name[b])))
          /\ last' = Ended("submit", b, trim(name[b]), "draft",
                           Draft(b, trim(name[b]), dayIndex, startHour), <<>>)
    /\ UNCHANGED <<dateVars, fourVars, apiVars, envVars, baseDate, timerKey, bookings, error, name,
                   net, done>>

DraftNext ==
    \/ \E b \in Browsers : Prev(b)
    \/ \E b \in Browsers : NextWeek(b)
    \/ \E b \in Browsers : Today(b)
    \/ \E b \in Browsers : SetName(b)
    \/ DraftCompute

\* mounted early on Wednesday 2025-01-01, in a week that lies in two years
DraftInit == NavInit /\ now = DayLen * DaysFromCivil(2025, 1, 1) + 1

SpecDraft == DraftInit /\ [][DraftNext]_vars

(***************************************************************************)
(* Claims about the store                                                  *)
(***************************************************************************)
\* listForWeek(wk) as each variant answers it in the current state
ListLS(wk) == apiGetWeekLS(ls, wk).data
ListHTTP(wk) == apiGetWeekHTTP(cache, wk).data
\* the records of a list, as a set
Elems(list) == {list[i] : i \in 1..Len(list)}
\* how many records of a list satisfy P
Count(list, P(_)) == Cardinality({i \in 1..Len(list) : P(list[i])})

\* C4: in every variant and for every draft, the record create returns and
\* the record listForWeek returns afterwards carry the generated id under
\* which the record is stored.
C4_RecordCarriesGeneratedId ==
    apiLast.op = "create" =>
        /\ IdOf(apiLast.local.data[1]) = apiLast.id
        /\ IdOf(ObjGet(ls, apiLast.id)) = apiLast.id
        /\ \E b \in Elems(ListLS(apiLast.wk)) : IdOf(b) = apiLast.id
        /\ IdOf(apiLast.http.data[1]) = apiLast.id
        /\ \E b \in Elems(ListHTTP(apiLast.wk)) : IdOf(b) = apiLast.id

\* C5: create(draft) followed by listForWeek(draft.weekKey) lists exactly one
\* record with the created record's id, holding the draft's fields, and
\* every record stored before the create is still stored, unchanged: the
\* week's list has grown by one.  (Stated for the drafts that carry no id of
\* their own, as submit of part_000 builds them.)
C5_CreateAddsExactlyOne ==
    [][(apiLast'.op = "create" /\ apiLast'.body[1].id = NoProp) =>
          LET wk == apiLast'.wk
              made == apiLast'.local.data[1]
              after == apiGetWeekLS(ls', wk).data
              afterH == apiGetWeekHTTP(cache', wk).data
          IN  /\ Count(after, LAMBDA b : IdOf(b) = IdOf(made)) = 1
              /\ SpreadId(IdOf(made), apiLast'.body[1]) \in Elems(after)
              /\ \A i \in 1..Len(ls) : ObjHas(ls', ls[i].k) /\ ObjGet(ls', ls[i].k) = ls[i].v
              /\ Len(after) = Len(ListLS(wk)) + 1
              /\ Elems(CacheRecords(cache)) \subseteq Elems(CacheRecords(cache'))
              /\ Len(afterH) = Len(ListHTTP(wk)) + 1
      ]_vars

\* C7: delete(id) for an id under which nothing is stored signals no error
\* and leaves every stored record as it was, in both variants.
C7_DeleteAbsentIsNoOp ==
    [][(apiLast'.op = "del" /\ ~apiLast'.had) =>
          /\ apiLast'.local.err = ""
          /\ apiLast'.http.err = ""
          /\ ls' = ls
          /\ CacheRecords(cache') = CacheRecords(cache)
      ]_vars

\* C8: every call through the API object gives, in the HTTP variant, the
\* result it gives in the local-storage variant, and fails in one exactly
\* when it fails in the other (the same ids being generated; lists compared
\* up to their order).
SameList(a, b) ==
    /\ Len(a) = Len(b)
    /\ \A r \in Elems(a) \cup Elems(b) :
          Count(a, LAMBDA x : x = r) = Count(b, LAMBDA x : x = r)
C8_VariantsAgree ==
    apiLast.op # "none" =>
        /\ (apiLast.local.err = "") <=> (apiLast.http.err = "")
        /\ SameList(apiLast.local.data, apiLast.http.data)

\* C13: in the local-storage variant, a create or delete whose write of the
\* snapshot fails ends with an error for the caller, and a create that
\* returns a record (from a draft with no id of its own) has stored it:
\* listForWeek of its week contains the record returned.
C13_WriteFailureIsSignalled ==
    /\ (apiLast.op \in {"create", "del"} /\ disk.full) => apiLast.local.err # ""
    /\ (apiLast.op = "create" /\ apiLast.local.err = "")
          => apiLast.local.data[1] \in Elems(ListLS(apiLast.wk))

\* C14: listForWeek(wk) for a week no stored record belongs to gives the
\* empty sequence without an error and leaves the storage as it is, for
\* every content of localStorage and for every weekKey in the handler.
C14_ListOfUnknownWeekIsEmpty ==
    [][apiLast'.op = "getWeek" =>
          /\ (\A i \in 1..Len(ls) : ls[i].v.weekKey # apiLast'.wk)
                => /\ apiLast'.local.err = ""
                   /\ apiLast'.local.data = <<>>
                   /\ ls' = ls
                   /\ disk' = disk
          /\ (\A r \in Elems(CacheRecords(cache)) : r.weekKey # apiLast'.wk)
                => /\ apiLast'.http.err = ""
                   /\ apiLast'.http.data = <<>>
                   /\ CacheRecords(cache') = CacheRecords(cache)
      ]_vars

\* C15: after any sequence of GET, POST and DELETE requests, every record
\* stored in bucket k has the weekKey field k, and a GET for k answers with
\* all and only the stored records whose weekKey field is k.
C15_BucketHoldsItsWeek ==
    /\ \A i \in 1..Len(cache) :
          \A r \in Elems(ObjValues(cache[i].v)) : r.weekKey = cache[i].k
    /\ (apiLast.op = "GET" /\ apiLast.req.query.weekKey # UndefinedKey)
          => Elems(apiLast.data)
               = {r \in Elems(CacheRecords(cache)) : r.weekKey = apiLast.req.query.weekKey}

\* C16: a request whose method is not GET, POST or DELETE is answered with
\* 405 and the header Allow: GET, POST, DELETE, whether it carries a weekKey
\* or not, and no stored record changes.
C16_OtherMethodsGet405 ==
    [][apiLast'.op \notin {"GET", "POST", "DELETE"} =>
          /\ apiLast'.status = 405
          /\ apiLast'.allow = {"GET", "POST", "DELETE"}
          /\ CacheRecords(cache') = CacheRecords(cache)
      ]_vars

(***************************************************************************)
(* Claims about the Board                                                  *)
(***************************************************************************)
\* C3: after any sequence of Prev, Next and Today, baseDate is a Monday at
\* 00:00 UTC, days holds 7 dates that start at it and go up by one calendar
\* day each, and each of the 7 has the week key shown for baseDate.
C3_WeekIsMondayToSunday ==
    \A b \in Browsers :
        /\ baseDate[b] % DayLen = 0
        /\ getUTCDay(baseDate[b]) = 1
        /\ DOMAIN days(b) = 0..6
        /\ days(b)[0] = baseDate[b]
        /\ \A i \in 0..5 : days(b)[i + 1] - days(b)[i] = DayLen
        /\ \A i \in 0..6 : weekKeyFromDate(days(b)[i]) = wkKeyOf(b)

\* the user has left the week of now, for a week whose Monday and Sunday
\* lie in different calendar years
C3_Witness ==
    \E b \in Browsers :
        /\ baseDate[b] # startOfISOWeek(now)
        /\ getUTCFullYear(days(b)[0]) # getUTCFullYear(days(b)[6])

\* listForWeek(wk) of the backend in use
StoreList(wk) == IF cfg.backend = "LS" THEN ListLS(wk) ELSE ListHTTP(wk)

\* C6: for a booking b shown in the view, remove(b.id) and the reload it
\* triggers give a list for b's week without b and with every other booking
\* that was stored for that week, on localStorage and over HTTP.
C6_CancelRemovesTheBooking ==
    last.op = "remove" =>
        /\ last.outcome = "reloaded"
        /\ last.rec \notin Elems(StoreList(last.rec.weekKey))
        /\ (last.rec.weekKey = wkKeyOf(last.b) => last.rec \notin Elems(bookings[last.b]))
        /\ Elems(last.before) \ {last.rec} \subseteq Elems(StoreList(last.rec.weekKey))

\* C9: with onePerWeek, once a submit for title t has completed in week w
\* (create and reload succeeded), a second submit for t made while w is still
\* selected is rejected with the 'already have' message, calls no create, and
\* the store holds exactly one record with title t and weekKey w.
C9_SecondSubmitRejected ==
    (onePerWeek /\ last.op = "submit" /\ last.again) =>
        /\ last.outcome = "rejected"
        /\ error[last.b] = AlreadyHave
        /\ Count(StoreRecords, LAMBDA r : r.title = last.title
                                         /\ r.weekKey = wkKeyOf(last.b)) = 1

\* C10: with onePerWeek, in every reachable state the store holds at most
\* one booking for each (weekKey, title) pair.
C10_AtMostOnePerWeekAndTitle ==
    onePerWeek =>
        \A r \in Elems(StoreRecords) :
            Count(StoreRecords, LAMBDA x : x.title = r.title /\ x.weekKey = r.weekKey) <= 1

\* a browser's click on "Assign 4 hours" has just been handled
SubmitStep(b) ==
    /\ last'.op = "submit"
    /\ last'.b = b
    /\ last'.outcome \in {"rejected", "created", "sent"}

\* C11: a submit that validation rejects (the trimmed name is empty, or with
\* onePerWeek the view holds a booking with that title) issues no getWeek,
\* create or del, leaves the store, the view, the form and the selected week
\* as they were, and sets one of the validation messages.
C11_RejectedSubmitOnlySetsError ==
    [][\A b \in Browsers :
          (/\ SubmitStep(b)
           /\ \/ trim(name[b]) = <<>>
              \/ onePerWeek /\ \E r \in Elems(bookings[b]) : r.title = trim(name[b]))
          => /\ last'.outcome = "rejected"
             /\ net' = net
             /\ ls' = ls
             /\ cache' = cache
             /\ bookings' = bookings
             /\ name' = name
             /\ baseDate' = baseDate
             /\ error'[b] \in {EnterName, PickPerson, AlreadyHave}
      ]_vars

\* a submit has been rejected because the view holds the title already
C11_Witness ==
    /\ last.op = "submit"
    /\ last.outcome = "rejected"
    /\ error[last.b] = AlreadyHave
    /\ \E r \in Elems(bookings[last.b]) : r.title = last.title

\* the failed responses on their way to browser b
Failed(q, b) == {i \in 1..Len(q) : q[i].b = b /\ q[i].stage = "resp" /\ q[i].err # ""}

\* C12: when a getWeek, create or del of the HTTP variant fails (the network
\* fails or the response is not ok) and the failure reaches the Board, the
\* error message is the failure's text, the view and the server's records
\* are unchanged and no request is sent in its place; and the view changes
\* only to the data of a successful getWeek response.
C12_FailedCallSetsErrorKeepsView ==
    [][\A b \in Browsers :
          /\ Cardinality(Failed(net', b)) < Cardinality(Failed(net, b))
                => \E i \in Failed(net, b) :
                      /\ error'[b] = net[i].err
                      /\ net' = RemoveAt(net, i)
                      /\ bookings' = bookings
                      /\ cache' = cache
          /\ bookings'[b] # bookings[b]
                => \E i \in 1..Len(net) :
                      /\ net[i].b = b
                      /\ net[i].op = "getWeek"
                      /\ net[i].stage = "resp"
                      /\ net[i].err = ""
                      /\ bookings'[b] = net[i].data
      ]_vars

\* a submit or a cancel has failed on the network while the view shows a
\* booking
C12_Witness ==
    /\ last.outcome = "error"
    /\ error[last.b] = FailedToFetch
    /\ bookings[last.b] # <<>>

\* C17: a load that the refresh timer starts asks for the week selected when
\* the timer fires.  (A timer tick is the step that leaves the selected
\* week, the form and the store alone and starts a load on nobody's behalf:
\* over HTTP it sends a getWeek, on localStorage it sets the view.)
C17_TimerLoadsSelectedWeek ==
    [][\A b \in Browsers :
          (baseDate' = baseDate /\ name' = name /\ last' = NoLast)
          => /\ (/\ cfg.backend = "HTTP"
                 /\ Len(net') = Len(net) + 1
                 /\ net'[Len(net')].b = b
                 /\ net'[Len(net')].org = "load")
                => net'[Len(net')].wk = wkKeyOf(b)
             /\ (cfg.backend = "LS" /\ bookings'[b] # bookings[b])
                => bookings'[b] = apiGetWeekLS(ls, wkKeyOf(b)).data
      ]_vars

\* C18: a getWeek response that arrives for a week other than the selected
\* one does not change the view; and whenever nothing is on its way, every
\* booking in the view has the weekKey of the selected week.
C18_StaleResponseIsDiscarded ==
    [][\A b \in Browsers :
          /\ \A i \in 1..Len(net) :
                (/\ net[i].b = b
                 /\ net[i].op = "getWeek"
                 /\ net[i].stage = "resp"
                 /\ net[i].err = ""
                 /\ net[i].wk # wkKeyOf(b)
                 /\ net' = RemoveAt(net, i))
                => bookings'[b] = bookings[b]
          /\ net' = <<>>
                => \A r \in Elems(bookings'[b]) : r.weekKey = weekKeyFromDate(baseDate'[b])
      ]_vars

(***************************************************************************)
(* Specification of the date helpers: a Date is drawn, the week-key        *)
(* functions are applied to it, and the clock moves on by hours and days.  *)
(***************************************************************************)
\* first days (UTC day numbers) of the windows the dates are drawn from:
\* 2020-12-24, 2024-12-23, 2026-12-24 (around three year boundaries, one of
\* them after a 53-week year) and 2025-06-09 (mid-year)
WindowStarts == {DaysFromCivil(2020, 12, 24), DaysFromCivil(2024, 12, 23),
                 DaysFromCivil(2026, 12, 24), DaysFromCivil(2025, 6, 9)}
WindowDays == 16
HoursOfDay == {0, 11, 23}

DateInputs == {DayLen * (w + k) + h : w \in WindowStarts, k \in 0..(WindowDays - 1),
                                      h \in HoursOfDay}

DateInit ==
    /\ dIn \in DateInputs
    /\ wkOut = [done |-> FALSE, of |-> 0, app |-> <<>>, p1 |-> <<>>]
    /\ FourIdle
    /\ ApiIdle
    /\ BoardIdle

\* the caller computes the week key of dIn with each variant
DateCompute ==
    /\ wkOut' = [done |-> TRUE, of |-> dIn, app |-> weekKeyFromDate(dIn), p1 |-> weekKey(dIn)]
    /\ UNCHANGED <<dIn, apiVars, envVars, boardVars, fourVars>>

\* time passes: later the same day, or the next day
DateAdvance ==
    /\ \E n \in DateInputs : n > dIn /\ n - dIn <= DayLen /\ dIn' = n
    /\ UNCHANGED <<wkOut, apiVars, envVars, boardVars, fourVars>>

DateNext == DateCompute \/ DateAdvance

SpecDate == DateInit /\ [][DateNext]_vars

(***************************************************************************)
(* ISO 8601, stated from its definition: the week of a day runs Monday to  *)
(* Sunday, its week-year is the calendar year of its Thursday, and its     *)
(* number counts the Thursdays of that year up to it.                      *)
(***************************************************************************)
IsoThursday(z) == z - ((z + 3) % 7) + 3
IsoWeekYear(z) == CivilFromDays(IsoThursday(z)).y
IsoWeekNo(z)   == (IsoThursday(z) - DaysFromCivil(IsoWeekYear(z), 1, 1)) \div 7 + 1

\* reading a key back: the number written by a sequence of digits
DigitVal(c) == CHOOSE i \in 0..9 : Digits[i + 1] = c
RECURSIVE StrToNat(_)
StrToNat(s) == IF Len(s) = 0 THEN 0
               ELSE 10 * StrToNat(SubSeq(s, 1, Len(s) - 1)) + DigitVal(s[Len(s)])
AllDigits(s) == \A i \in 1..Len(s) : s[i] \in DigitSet
\* the position of the "-" that separates the year from "Www"
DashPos(k) == CHOOSE i \in 1..Len(k) : k[i] = "-" /\ \A j \in 1..(i - 1) : k[j] # "-"
YearPart(k) == SubSeq(k, 1, DashPos(k) - 1)
WeekPart(k) == SubSeq(k, DashPos(k) + 2, Len(k))
\* k matches ^\d{4}-W\d{2}$
KeyShape(k) ==
    /\ Len(k) = 8
    /\ AllDigits(SubSeq(k, 1, 4))
    /\ k[5] = "-" /\ k[6] = "W"
    /\ AllDigits(SubSeq(k, 7, 8))
\* k names the ISO week of UTC day z
KeyIsIsoWeekOf(k, z) ==
    /\ \E i \in 1..Len(k) : k[i] = "-"
    /\ AllDigits(YearPart(k)) /\ AllDigits(WeekPart(k))
    /\ StrToNat(YearPart(k)) = IsoWeekYear(z)
    /\ StrToNat(WeekPart(k)) = IsoWeekNo(z)

\* C1: for every date the key's year is the ISO week-year and its week the
\* ISO week number, in every variant (weekKeyFromDate and part_001's weekKey).
C1_KeyIsIsoWeekInEveryVariant ==
    wkOut.done =>
        /\ KeyIsIsoWeekOf(wkOut.app, wkOut.of \div DayLen)
        /\ KeyIsIsoWeekOf(wkOut.p1, wkOut.of \div DayLen)

\* C2: the key matches ^\d{4}-W\d{2}$ with a week number in 01..53, and it
\* is the same for every Date of the same UTC day (computing it again, at
\* whatever hour, gives the string computed before).
C2_KeyShapeAndStable ==
    wkOut.done =>
        /\ KeyShape(wkOut.app)
        /\ StrToNat(SubSeq(wkOut.app, 7, 8)) \in 1..53
        /\ (dIn \div DayLen = wkOut.of \div DayLen => weekKeyFromDate(dIn) = wkOut.app)

\* the key was computed for a day of a one-digit week, at one hour, and is
\* computed again at another hour of that day
C2_Witness ==
    /\ wkOut.done
    /\ wkOut.app[7] = "0"
    /\ dIn # wkOut.of
    /\ dIn \div DayLen = wkOut.of \div DayLen

(***************************************************************************)
(* Claims about the draft                                                  *)
(***************************************************************************)
\* new Date(iso) for a string toISOString has written
ParseISO(iso) ==
    DateUTC(StrToNat(SubSeq(iso, 1, 4)), StrToNat(SubSeq(iso, 6, 7)) - 1,
            StrToNat(SubSeq(iso, 9, 10)))
    + StrToNat(SubSeq(iso, 12, 13))

\* C19: the draft submit builds has the ISO week key of its own dayISO as
\* its weekKey, for every day index, every selected week and every time
\* zone of the browser.
C19_DraftWeekKeyIsWeekOfItsDay ==
    last.outcome = "draft" =>
        last.rec.weekKey = weekKeyFromDate(ParseISO(last.rec.dayISO))

\* C20: in App.jsx, a draft with a start hour from HOURS and duration 4 ends
\* no later than CONFIG.hoursEnd.
C20_BookingEndsWithinVisibleDay ==
    (last.outcome = "draft" /\ cfg.app = "App") =>
        last.rec.startHour + last.rec.durationHours <= hoursEnd

(***************************************************************************)
(* FourHourAssignmentBoard of part_001: the assignments are kept in the    *)
(* component's state, an object from week key to an object from person id  *)
(* to { dayIndex, startHour }.  Every handler runs to its end on the state *)
(* of the render before it.                                                *)
(***************************************************************************)
\* startOfWeek(date): Monday as first day of the week
startOfWeek(date) ==
    LET d0   == DateUTC(getFullYear(date), getMonth(date), getDate(date))
        day  == getUTCDay(d0)
        diff == (IF day = 0 THEN 0 - 6 ELSE 1) - day
        d1   == setUTCDate(d0, getUTCDate(d0) + diff)
    IN  DayLen * (d1 \div DayLen)

\* the ids of the default people
people == <<"p1", "p2", "p3">>
\* the person and the day the user picks in the form
PersonChoices == {people[1], people[2]}
FourDayChoices == {0, 6}

\* the memo wkKey of the current render
wkKey(b) == weekKey(baseDate[b])
\* assignments[k] || {}
WeekOf(a, k) == IF ObjHas(a, k) THEN ObjGet(a, k) ELSE <<>>
thisWeek(b) == WeekOf(assignments[b], wkKey(b))

FourFrame ==
    UNCHANGED <<dateVars, apiVars, envVars, timerKey, bookings, error, name, net, done>>

\* an assignFourHours that builds the new state from the shown week alone
assignFourHours_ForgetsOtherWeeks(b) ==
    /\ selectedPersonId[b] # ""
    /\ selectedStart[b] + 4 <= 24
    /\ LET week == ObjSet(thisWeek(b), selectedPersonId[b],
                          [dayIndex |-> selectedDay[b], startHour |-> selectedStart[b]])
       IN  assignments' = [assignments EXCEPT ![b] = ObjSet(<<>>, wkKey(b), week)]
    /\ last' = [NoLast EXCEPT !.op = "assign", !.b = b, !.title = <<selectedPersonId[b]>>]
    /\ UNCHANGED <<baseDate, selectedPersonId, selectedDay, selectedStart>>
    /\ FourFrame

\* assignFourHours(); last.title holds the person id
assignFourHours(b) ==
    /\ selectedPersonId[b] # ""
    /\ selectedStart[b] + 4 <= 24
    /\ LET week == ObjSet(thisWeek(b), selectedPersonId[b],
                          [dayIndex |-> selectedDay[b], startHour |-> selectedStart[b]])
       IN  assignments' = [assignments EXCEPT ![b] = ObjSet(assignments[b], wkKey(b), week)]
    /\ last' = [NoLast EXCEPT !.op = "assign", !.b = b, !.title = <<selectedPersonId[b]>>]
    /\ UNCHANGED <<baseDate, selectedPersonId, selectedDay, selectedStart>>
    /\ FourFrame

\* clearAssignment(pid): the button of an entry that is shown
clearAssignment(b, pid) ==
    /\ ObjHas(thisWeek(b), pid)
    /\ LET week == ObjDelete(thisWeek(b), pid)
       IN  assignments' = [assignments EXCEPT ![b] = ObjSet(assignments[b], wkKey(b), week)]
    /\ last' = [NoLast EXCEPT !.op = "clear", !.b = b, !.title = <<pid>>]
    /\ UNCHANGED <<baseDate, selectedPersonId, selectedDay, selectedStart>>
    /\ FourFrame

\* setBaseDate, followed at most back weeks before and ahead weeks after
\* the week of now
FourSetBaseDate(b, d, back, ahead) ==
    /\ (d - startOfWeek(now)) \in (0 - back * 7 * DayLen)..(ahead * 7 * DayLen)
    /\ d # baseDate[b]
    /\ baseDate' = [baseDate EXCEPT ![b] = d]
    /\ last' = NoLast
    /\ UNCHANGED fourVars
    /\ FourFrame

goPrev(b, back, ahead) == FourSetBaseDate(b, addDays(baseDate[b], 0 - 7), back, ahead)
goNext(b, back, ahead) == FourSetBaseDate(b, addDays(baseDate[b], 7), back, ahead)
goToday(b, back, ahead) == FourSetBaseDate(b, startOfWeek(now), back, ahead)

\* onChange of the Person and Day selects
setSelectedPersonId(b) ==
    /\ \E p \in PersonChoices :
          p # selectedPersonId[b] /\ selectedPersonId' = [selectedPersonId EXCEPT ![b] = p]
    /\ last' = NoLast
    /\ UNCHANGED <<baseDate, assignments, selectedDay, selectedStart>>
    /\ FourFrame

setSelectedDay(b) ==
    /\ \E i \in FourDayChoices :
          i # selectedDay[b] /\ selectedDay' = [selectedDay EXCEPT ![b] = i]
    /\ last' = NoLast
    /\ UNCHANGED <<baseDate, assignments, selectedPersonId, selectedStart>>
    /\ FourFrame

\* the first render, with nothing in localStorage
FourMount ==
    /\ dIn = 0
    /\ wkOut = [done |-> FALSE, of |-> 0, app |-> <<>>, p1 |-> <<>>]
    /\ ApiIdle
    /\ cfg = [app |-> "part_001", backend |-> "LS", conns |-> 1]
    /\ baseDate = [b \in Browsers |-> startOfWeek(now)]
    /\ timerKey = [b \in Browsers |-> <<>>]
    /\ bookings = [b \in Browsers |-> <<>>]
    /\ error = [b \in Browsers |-> ""]
    /\ name = [b \in Browsers |-> <<>>]
    /\ net = <<>>
    /\ done = [b \in Browsers |-> {}]
    /\ last = NoLast
    /\ assignments = [b \in Browsers |-> <<>>]
    /\ selectedPersonId = [b \in Browsers |-> people[1]]
    /\ selectedDay = [b \in Browsers |-> 0]
    /\ selectedStart = [b \in Browsers |-> 8]

(***************************************************************************)
(* Specification of the assignment board: the user picks persons and days, *)
(* assigns, clears, and moves between the week of now and the weeks after. *)
(***************************************************************************)
AssignInit ==
    /\ tz \in TzOffsets
    /\ now \in Nows
    /\ FourMount

AssignNext ==
    \/ \E b \in Browsers : assignFourHours(b)
    \/ \E b \in Browsers, pid \in PersonChoices : clearAssignment(b, pid)
    \/ \E b \in Browsers : goPrev(b, 0, MaxNav)
    \/ \E b \in Browsers : goNext(b, 0, MaxNav)
    \/ \E b \in Browsers : goToday(b, 0, MaxNav)
    \/ \E b \in Browsers : setSelectedPersonId(b)
    \/ \E b \in Browsers : setSelectedDay(b)

SpecAssign == AssignInit /\ [][AssignNext]_vars

(***************************************************************************)
(* Claims about the assignment board                                       *)
(***************************************************************************)
Keys(o) == {o[i].k : i \in 1..Len(o)}
NoEntry == [dayIndex |-> 0 - 1, startHour |-> 0 - 1]
\* the entry of person pid under week key k, or NoEntry
Entry(a, k, pid) == IF ObjHas(WeekOf(a, k), pid) THEN ObjGet(WeekOf(a, k), pid) ELSE NoEntry
\* no key is held twice
OneEach(o) == \A i, j \in 1..Len(o) : o[i].k = o[j].k => i = j
\* apart from the entry of (k, pid), a1 holds what a0 holds
OthersKept(a0, a1, k, pid) ==
    \A k2 \in Keys(a0) \cup Keys(a1) :
        \A p2 \in Keys(WeekOf(a0, k2)) \cup Keys(WeekOf(a1, k2)) :
            <<k2, p2>> # <<k, pid>> => Entry(a1, k2, p2) = Entry(a0, k2, p2)

\* C21: every (week key, person id) pair holds at most one assignment;
\* assignFourHours leaves the selected person with exactly the entry
\* selected, in the shown week, whether or not the person had one;
\* clearAssignment leaves the person without one; both leave every other
\* person's and every other week key's entries as they were, and the week
\* buttons and the selects change no entry.
C21_OneEntryPerPersonAndWeek ==
    /\ \A b \in Browsers : OneEach(assignments[b])
    /\ [][\A b \in Browsers :
            /\ OneEach(assignments'[b])
            /\ \A i \in 1..Len(assignments'[b]) : OneEach(assignments'[b][i].v)
            /\ (last'.op = "assign" /\ last'.b = b) =>
                  /\ Entry(assignments'[b], wkKey(b), selectedPersonId[b])
                       = [dayIndex |-> selectedDay[b], startHour |-> selectedStart[b]]
                  /\ OthersKept(assignments[b], assignments'[b], wkKey(b), selectedPersonId[b])
            /\ (last'.op = "clear" /\ last'.b = b) =>
                  /\ Entry(assignments'[b], wkKey(b), last'.title[1]) = NoEntry
                  /\ OthersKept(assignments[b], assignments'[b], wkKey(b), last'.title[1])
            /\ last'.op \notin {"assign", "clear"} => assignments'[b] = assignments[b]
         ]_vars

\* assignFourHours has just replaced an entry: the person's key stands
\* before another person's, so it was there before this assignment; and
\* another week key holds an entry too
C21_Witness ==
    \E b \in Browsers :
        /\ last.op = "assign"
        /\ Len(thisWeek(b)) = 2
        /\ thisWeek(b)[1].k = selectedPersonId[b]
        /\ \E k \in Keys(assignments[b]) : k # wkKey(b) /\ WeekOf(assignments[b], k) # <<>>

(***************************************************************************)
(* Specification of a year on the assignment board: mounted in the week of *)
(* Monday 2024-01-01, the user moves up to YearNav weeks ahead and back,   *)
(* and assigns and clears in the weeks shown.                              *)
(***************************************************************************)
YearNav == 52
\* entries are kept under at most this many week keys
MaxWeeksHeld == 1
\* the Mondays the week buttons lead to
YearMondays == {startOfWeek(now) + 7 * DayLen * k : k \in 0..YearNav}

YearInit ==
    /\ tz = 0
    /\ now = DateUTC(2024, 0, 3) + 12
    /\ FourMount

YearAssign(b) ==
    /\ ObjHas(assignments[b], wkKey(b)) \/ Len(assignments[b]) < MaxWeeksHeld
    /\ assignFourHours(b)

YearNext ==
    \/ \E b \in Browsers : YearAssign(b)
    \/ \E b \in Browsers, pid \in PersonChoices : clearAssignment(b, pid)
    \/ \E b \in Browsers : goPrev(b, 0, YearNav)
    \/ \E b \in Browsers : goNext(b, 0, YearNav)
    \/ \E b \in Browsers : goToday(b, 0, YearNav)

SpecYear == YearInit /\ [][YearNext]_vars

\* C22: a Monday the week buttons lead to, other than the one shown, has a
\* week key other than the key of the week shown, with the key function of
\* every variant; so what assignFourHours and clearAssignment store while
\* a week is shown changes nothing of what is shown for another week.
C22_DistinctWeeksHaveDistinctKeys ==
    [][\A b \in Browsers : \A m \in YearMondays :
          m # baseDate[b] =>
             /\ weekKeyFromDate(m) # weekKeyFromDate(baseDate[b])
             /\ weekKey(m) # weekKey(baseDate[b])
             /\ WeekOf(assignments'[b], weekKey(m)) = WeekOf(assignments[b], weekKey(m))
      ]_vars

(***************************************************************************)
(* Specification of the day columns: a Board on localStorage, in a browser *)
(* of some time zone, showing the week of Monday 2024-12-30; the user      *)
(* types a name, selects a day in the form, submits and cancels, and every *)
(* render puts each booking in the day columns whose date is the           *)
(* booking's.                                                              *)
(***************************************************************************)
\* date.toDateString(): the weekday, month, day and year on the browser's
\* wall clock, which the local calendar date determines
toDateString(t) == <<getFullYear(t), getMonth(t), getDate(t)>>

\* the day columns di in which the render of browser b shows booking r:
\* new Date(r.dayISO).toDateString() === days[di].toDateString()
Columns(b, r) ==
    {di \in 0..6 : toDateString(ParseISO(r.dayISO)) = toDateString(days(b)[di])}

\* onChange of the Day select: setDayIndex
SetDayIndex(b) ==
    /\ \E i \in 0..6 : i # selectedDay[b] /\ selectedDay' = [selectedDay EXCEPT ![b] = i]
    /\ last' = NoLast
    /\ UNCHANGED <<dateVars, apiVars, envVars, baseDate, timerKey, bookings, error, name,
                   net, done, assignments, selectedPersonId, selectedStart>>

\* click on "Assign 4 hours", with the day selected in the form
SubmitSelected(b) ==
    LET nm == trim(name[b])
    IN  /\ UNCHANGED <<dateVars, fourVars, apiLast, envVars, baseDate, timerKey, cache>>
        /\ IF nm = <<>>
           THEN /\ error' = [error EXCEPT ![b] =
                                IF cfg.app = "App" THEN EnterName ELSE PickPerson]
                /\ last' = Ended("submit", b, nm, "rejected", NoRec, <<>>)
                /\ UNCHANGED <<ls, bookings, name, net, done>>
           ELSE IF onePerWeek /\ Has(b, nm)
           THEN /\ error' = [error EXCEPT ![b] = AlreadyHave]
                /\ last' = Ended("submit", b, nm, "rejected", NoRec, <<>>)
                /\ UNCHANGED <<ls, bookings, name, net, done>>
           ELSE \E startHour \in StartChoices :
                CreateAndReload(b, nm, Draft(b, nm, selectedDay[b], startHour))

RenderInit == DraftInit

RenderNext ==
    \/ \E b \in Browsers : SetName(b)
    \/ \E b \in Browsers : SetDayIndex(b)
    \/ \E b \in Browsers : SubmitSelected(b)
    \/ \E b \in Browsers : Remove(b)

SpecRender == RenderInit /\ [][RenderNext]_vars

\* C23: when submit has created a booking with day index i and reloaded,
\* the bookings shown hold the new booking, and the render shows it in the
\* column of days[i] and in no other, for every i in 0..6 and every time
\* zone of the browser.
C23_NewBookingIsInItsDayColumn ==
    \A b \in Browsers :
        (last.op = "submit" /\ last.b = b /\ last.outcome = "created") =>
            /\ \E r \in Elems(bookings[b]) :
                  r.title = last.rec.title /\ r.dayISO = last.rec.dayISO
            /\ \A r \in Elems(bookings[b]) :
                  (r.title = last.rec.title /\ r.dayISO = last.rec.dayISO)
                  => Columns(b, r) = {selectedDay[b]}

====
